---- MODULE Spec2Model ----
(***************************************************************************)
(* Weather-Application: the refresh / alert-notification lifecycle of      *)
(* WeatherApp (app script), the severity classification of WeatherService  *)
(* and the browser state they rest on (localStorage, timers, the           *)
(* notification permission).                                               *)
(*                                                                         *)
(* Every await of the code is a separate step of the model: the part of a  *)
(* handler up to its next await is one atomic action (JavaScript runs one  *)
(* callback at a time), and the provider's answer is chosen when the       *)
(* awaited call returns.  A handler whose part before the await only shows *)
(* the loading indicator (searchLocation, getCurrentLocation,              *)
(* loadSavedLocation, requestNotificationPermission) is one action, taken  *)
(* when its awaited call returns.  The DOM is taken to hold every element  *)
(* the code looks up, so rendering (updateWeatherUI, the maps and charts   *)
(* services) neither throws nor changes the state modelled here.           *)
(*                                                                         *)
(* The accounts and saved places of UserService (js/user.js), the radar    *)
(* frames of MapsService (js/maps.js) and the request handler of the       *)
(* static test server are modelled on variables of their own, each under   *)
(* its own specification.                                                  *)
(***************************************************************************)
EXTENDS Integers, Sequences, FiniteSets, Bags, TLC

(***************************************************************************)
(* Bounds of the model.                                                    *)
(***************************************************************************)
MaxFetches == 2      \* fetchWeatherData sequences in flight at once
MaxPolls == 1        \* alert re-polls in flight at once
MaxCandidates == 2   \* candidates in one geocoding answer
MaxCalls == 2        \* calls of getAlertSeverity with one alert
MaxTime == 2         \* milliseconds Date.now() moves through
MaxFrames == 2       \* past frames in one radar manifest
MaxSegments == 3     \* path segments in one request URL

(***************************************************************************)
(* JavaScript values.                                                      *)
(***************************************************************************)
NULL == "null"
NoHandle == 0                       \* this.alertCheckInterval / this.refreshTimer = null
NoData == [null |-> TRUE]           \* this.weatherData = null

Locations == {"A", "B"}

(***************************************************************************)
(* CONFIG (js/config.js).                                                  *)
(***************************************************************************)
REFRESH_INTERVAL == 1800000
CHECK_INTERVAL == 900000
NOTIFICATION_DURATION == 10000
MAX_FORECAST_DAYS == 5
MAX_HOURLY_FORECAST == 24
SAVED_LOCATIONS_LIMIT == 5

\* Object.entries order of CONFIG.ALERTS.SEVERITY_LEVELS
SEVERITY_LEVELS ==
    << [level |-> "SEVERE",
        keywords |-> <<"Hurricane", "Tornado", "Extreme Thunderstorm", "Flood", "Tsunami">>],
       [level |-> "MODERATE",
        keywords |-> <<"Thunderstorm", "Rain", "Snow", "Fog", "Wind">>],
       [level |-> "MINOR",
        keywords |-> <<"Cloudy", "Drizzle", "Light Rain">>] >>

(***************************************************************************)
(* Strings: String.prototype.toLowerCase / toUpperCase / includes and the  *)
(* number-to-string conversion of a template literal.                      *)
(***************************************************************************)
UpperLetters == "ABCDEFGHIJKLMNOPQRSTUVWXYZ"
LowerLetters == "abcdefghijklmnopqrstuvwxyz"
Digits == "0123456789"

CharAt(s, i) == SubSeq(s, i, i)

MapChar(c, from, to) ==
    IF \E i \in 1..Len(from) : CharAt(from, i) = c
    THEN CharAt(to, CHOOSE i \in 1..Len(from) : CharAt(from, i) = c)
    ELSE c

RECURSIVE MapString(_, _, _)
MapString(s, from, to) ==
    IF Len(s) = 0 THEN ""
    ELSE MapChar(CharAt(s, 1), from, to) \o MapString(SubSeq(s, 2, Len(s)), from, to)

toLowerCase(s) == MapString(s, UpperLetters, LowerLetters)
toUpperCase(s) == MapString(s, LowerLetters, UpperLetters)

includes(s, k) ==
    \E i \in 1..(Len(s) - Len(k) + 1) : SubSeq(s, i, i + Len(k) - 1) = k

RECURSIVE NumToString(_)
NumToString(n) ==
    IF n < 10 THEN CharAt(Digits, n + 1)
    ELSE NumToString(n \div 10) \o CharAt(Digits, (n % 10) + 1)

(***************************************************************************)
(* WeatherService.getAlertSeverity: the first keyword of the table, in     *)
(* table order, that occurs in the lower-cased event or description.       *)
(***************************************************************************)
KeywordMatches(alert, keyword) ==
    \/ includes(toLowerCase(alert.event), toLowerCase(keyword))
    \/ includes(toLowerCase(alert.description), toLowerCase(keyword))

LevelMatches(alert, i) ==
    \E k \in 1..Len(SEVERITY_LEVELS[i].keywords) :
        KeywordMatches(alert, SEVERITY_LEVELS[i].keywords[k])

\* a classification that answers 'minor' when no keyword occurs
getAlertSeverityMinorDefault(alert) ==
    IF \E i \in 1..Len(SEVERITY_LEVELS) : LevelMatches(alert, i)
    THEN LET first == CHOOSE i \in 1..Len(SEVERITY_LEVELS) :
                          /\ LevelMatches(alert, i)
                          /\ \A j \in 1..(i - 1) : ~LevelMatches(alert, j)
         IN  toLowerCase(SEVERITY_LEVELS[first].level)
    ELSE "minor"

\* a classification that tries the levels of the table from the last to the first
getAlertSeverityLastLevel(alert) ==
    IF \E i \in 1..Len(SEVERITY_LEVELS) : LevelMatches(alert, i)
    THEN LET lastLevel == CHOOSE i \in 1..Len(SEVERITY_LEVELS) :
                              /\ LevelMatches(alert, i)
                              /\ \A j \in (i + 1)..Len(SEVERITY_LEVELS) : ~LevelMatches(alert, j)
         IN  toLowerCase(SEVERITY_LEVELS[lastLevel].level)
    ELSE "moderate"

getAlertSeverity(alert) ==
    IF \E i \in 1..Len(SEVERITY_LEVELS) : LevelMatches(alert, i)
    THEN LET first == CHOOSE i \in 1..Len(SEVERITY_LEVELS) :
                          /\ LevelMatches(alert, i)
                          /\ \A j \in 1..(i - 1) : ~LevelMatches(alert, j)
         IN  toLowerCase(SEVERITY_LEVELS[first].level)
    ELSE "moderate"

(***************************************************************************)
(* Alerts as the provider returns them (OneCall `alerts` entries).         *)
(***************************************************************************)
Tornado1 == [event |-> "Tornado Warning", description |-> "Take shelter now",
             start |-> 1000, end |-> 2000]
Tornado2 == [event |-> "Tornado Warning", description |-> "Updated: path moved east",
             start |-> 1000, end |-> 2000]
HeatWave == [event |-> "Heat Advisory", description |-> "Hot afternoon",
             start |-> 1500, end |-> 2500]

AlertUniverse == {Tornado1, Tornado2, HeatWave}

\* the arrays a provider answer carries in `alerts`
AlertLists ==
    { <<Tornado1>>, <<Tornado2>>, <<Tornado1, Tornado2>>, <<HeatWave, Tornado1>> }

\* `oneCallData.alerts || []`
AlertsOrEmpty(oneCallData) ==
    IF "alerts" \in DOMAIN oneCallData THEN oneCallData.alerts ELSE <<>>

(***************************************************************************)
(* WeatherApp.showAlertNotifications, as a function of the alert array and *)
(* of the array read from localStorage['shownAlerts'].                     *)
(***************************************************************************)
\* `${alert.event}-${alert.start}-${alert.end}`
AlertId(alert) ==
    alert.event \o "-" \o NumToString(alert.start) \o "-" \o NumToString(alert.end)

\* the identities and the notifications of the alerts of AlertUniverse, tabulated
AlertIds == [a \in AlertUniverse |-> AlertId(a)]

\* Array.prototype.includes
Contains(arr, x) == \E i \in 1..Len(arr) : arr[i] = x

\* alerts.filter(alert => !shownAlerts.includes(alertId))
NewAlerts(alerts, shown) ==
    LET NotShown(alert) == ~Contains(shown, AlertIds[alert])
    IN  SelectSeq(alerts, NotShown)

\* a notification that closes after the duration whatever the severity
MakeNotificationClosing(alert) ==
    LET severity == getAlertSeverity(alert)
    IN  [title |-> toUpperCase(severity) \o " Weather Alert: " \o alert.event,
         body |-> alert.description,
         tag |-> "weather-alert-" \o NumToString(alert.start),
         requireInteraction |-> (severity = "severe"),
         closeAfter |-> NOTIFICATION_DURATION,
         alert |-> alert]

\* new Notification(title, options) and the setTimeout that closes it
\* (closeAfter = 0: no timeout is set)
MakeNotification(alert) ==
    LET severity == getAlertSeverity(alert)
    IN  [title |-> toUpperCase(severity) \o " Weather Alert: " \o alert.event,
         body |-> alert.description,
         tag |-> "weather-alert-" \o NumToString(alert.start),
         requireInteraction |-> (severity = "severe"),
         closeAfter |-> IF severity # "severe" THEN NOTIFICATION_DURATION ELSE 0,
         alert |-> alert]

Notifications == [a \in AlertUniverse |-> MakeNotification(a)]

\* the notifications one call raises, in order
NotificationsFor(alerts, shown) ==
    LET new == NewAlerts(alerts, shown)
    IN  [i \in 1..Len(new) |-> Notifications[new[i]]]

\* a save that writes the new identities only
ShownAfterOverwriting(alerts, shown) ==
    LET new == NewAlerts(alerts, shown)
    IN  [i \in 1..Len(new) |-> AlertIds[new[i]]]

\* the array one call leaves in localStorage['shownAlerts']
ShownAfter(alerts, shown) ==
    LET new == NewAlerts(alerts, shown)
    IN  shown \o [i \in 1..Len(new) |-> AlertIds[new[i]]]

\* processAlerts without the permission test
ProcessAlertsNotifiesAlways(alerts, perm) == Len(alerts) > 0

\* processAlerts calls showAlertNotifications only for a non-empty array and
\* only when Notification.permission === 'granted'
ProcessAlertsNotifies(alerts, perm) == Len(alerts) > 0 /\ perm = "granted"

ProcessAlertsRaised(alerts, shown, perm) ==
    IF ProcessAlertsNotifies(alerts, perm) THEN NotificationsFor(alerts, shown) ELSE <<>>

ProcessAlertsShown(alerts, shown, perm) ==
    IF ProcessAlertsNotifies(alerts, perm) THEN ShownAfter(alerts, shown) ELSE shown

(***************************************************************************)
(* The environments the application is checked in: the locations the       *)
(* geocoder resolves to, the alert arrays the provider answers with and    *)
(* the number of calls in flight at once.                                  *)
(***************************************************************************)
\* relocation: two locations, a provider that reports no alerts
EnvRelocation ==
    [locations |-> {"A", "B"}, alertLists |-> {},
     maxFetches |-> MaxFetches, maxPolls |-> MaxPolls]

\* alerts: one location, a provider that reports alerts
EnvAlerts ==
    [locations |-> {"A"}, alertLists |-> AlertLists,
     maxFetches |-> MaxFetches - 1, maxPolls |-> MaxPolls]

\* the One Call endpoint, asked with exclude=minutely, answers with eight
\* days and forty-eight hours; entry i of an array stands for itself
OneCallDaily == [i \in 1..8 |-> i]
OneCallHourly == [i \in 1..48 |-> i]

\* the answers of getOneCallData: the `alerts` property is an array or absent
OneCallAnswers(E) ==
    { [daily |-> OneCallDaily, hourly |-> OneCallHourly, alerts |-> a] : a \in E.alertLists }
        \cup { [daily |-> OneCallDaily, hourly |-> OneCallHourly] }

\* the non-empty arrays the geocoding endpoint answers with
CandidateLists(E) == UNION { [1..n -> E.locations] : n \in 1..MaxCandidates }

(***************************************************************************)
(* State.                                                                  *)
(***************************************************************************)
VARIABLES
    currentLocation,     \* this.currentLocation: NULL or a location
    weatherData,         \* this.weatherData: NoData or the stored snapshot
    alertCheckInterval,  \* this.alertCheckInterval: NoHandle or a handle
    refreshTimer,        \* this.refreshTimer: NoHandle or a handle
    alertsChecked,       \* this.alertsToggle.checked
    permission,          \* Notification.permission
    intervals,           \* the setInterval timers the browser holds
    timeouts,            \* the pending setTimeout refresh timers
    weatherLocation,     \* localStorage['weatherLocation']: NULL or a location
    shownAlerts,         \* localStorage['shownAlerts'], the parsed array
    fetches,             \* bag of the fetchWeatherData calls suspended at an await
    polls,               \* bag of the alert re-polls awaiting getOneCallData
    raised,              \* the notifications raised by the last step
    last,                \* the last step taken
    history,             \* identities polled under a granted permission, and
                         \* the number of steps that notified each identity
    severityAlert,       \* the alert handed to weatherService.getAlertSeverity
    severityResult,      \* what its calls returned, NULL before the first call
    severityCalls,       \* the number of calls made with severityAlert
    currentUser,         \* UserService.currentUser: NoUser or {id, name, email}
    savedLocations,      \* UserService.savedLocations
    storedUsers,         \* localStorage['weather_app_users'], the parsed array
    storedCurrentUser,   \* localStorage['weather_app_currentUser']: NoUser or a record
    clock,               \* the last value Date.now() returned
    userLast,            \* the last call on the UserService
    radarData,           \* the manifest handed to MapsService.processRadarFrames
    radarFrames,         \* MapsService.radarFrames
    requestUrl,          \* req.url of the request the test server handles
    filePath             \* the path it hands to fs.readFile, NULL before it does

appVars == << currentLocation, weatherData, alertCheckInterval, refreshTimer,
              alertsChecked, permission, intervals, timeouts, weatherLocation,
              shownAlerts, fetches, polls, raised, last, history >>

severityVars == << severityAlert, severityResult, severityCalls >>

userVars == << currentUser, savedLocations, storedUsers, storedCurrentUser, clock, userLast >>

radarVars == << radarData, radarFrames >>

serverVars == << requestUrl, filePath >>

serviceVars == << severityVars, userVars, radarVars, serverVars >>

vars == << appVars, serviceVars >>

\* a step of WeatherApp's lifecycle leaves the calls on the service, the user
\* accounts, the radar frames and the test server alone
ServiceUnchanged == UNCHANGED serviceVars

Ids == { AlertIds[a] : a \in AlertUniverse }

Step(op) == [op |-> op, replaced |-> NULL]

AddTo(bag, x) == bag (+) SetToBag({x})

RemoveFrom(bag, x) == bag (-) SetToBag({x})

(***************************************************************************)
(* Timers.  A handle stands for the number setInterval / setTimeout        *)
(* returns; a new handle differs from every handle the browser still holds *)
(* and from every handle the application still refers to.                  *)
(***************************************************************************)
TimerState ==
    [alertCheckInterval |-> alertCheckInterval, refreshTimer |-> refreshTimer,
     intervals |-> intervals, timeouts |-> timeouts]

Handles(timers) == { timer.handle : timer \in timers }

FreshHandle(t) ==
    LET used == Handles(t.intervals) \cup Handles(t.timeouts)
                    \cup {t.alertCheckInterval, t.refreshTimer}
    IN  CHOOSE n \in 1..(Cardinality(used) + 1) :
            /\ n \notin used
            /\ \A m \in 1..(n - 1) : m \in used

\* clearInterval / clearTimeout
ClearTimer(timers, h) == { timer \in timers : timer.handle # h }

\* setInterval / setTimeout
SetTimer(timers, h, delay) == timers \cup { [handle |-> h, delay |-> delay] }

\* a startAlertChecking that leaves the interval it replaces running
startAlertCheckingKeepingOld(t) ==
    LET h == FreshHandle(t)
    IN  [t EXCEPT !.alertCheckInterval = h,
                  !.intervals = SetTimer(t.intervals, h, CHECK_INTERVAL)]

\* WeatherApp.startAlertChecking
startAlertChecking(t) ==
    LET cleared == IF t.alertCheckInterval # NoHandle
                   THEN ClearTimer(t.intervals, t.alertCheckInterval)
                   ELSE t.intervals
        h == FreshHandle(t)
    IN  [t EXCEPT !.alertCheckInterval = h,
                  !.intervals = SetTimer(cleared, h, CHECK_INTERVAL)]

\* WeatherApp.setupAutoRefresh
setupAutoRefresh(t) ==
    LET cleared == IF t.refreshTimer # NoHandle
                   THEN ClearTimer(t.timeouts, t.refreshTimer)
                   ELSE t.timeouts
        h == FreshHandle(t)
    IN  [t EXCEPT !.refreshTimer = h,
                  !.timeouts = SetTimer(cleared, h, REFRESH_INTERVAL)]

\* a toggleAlerts that stops the refresh timer as well
toggleAlertsStoppingRefresh(t, enabled) ==
    IF enabled THEN startAlertChecking(t)
    ELSE [t EXCEPT !.intervals = {}, !.alertCheckInterval = NoHandle,
                   !.timeouts = {}, !.refreshTimer = NoHandle]

\* WeatherApp.toggleAlerts
toggleAlerts(t, enabled) ==
    IF enabled THEN startAlertChecking(t)
    ELSE IF t.alertCheckInterval # NoHandle
         THEN [t EXCEPT !.intervals = ClearTimer(t.intervals, t.alertCheckInterval),
                         !.alertCheckInterval = NoHandle]
         ELSE t

SetTimers(t) ==
    /\ alertCheckInterval' = t.alertCheckInterval
    /\ refreshTimer' = t.refreshTimer
    /\ intervals' = t.intervals
    /\ timeouts' = t.timeouts

TimersUnchanged == UNCHANGED << alertCheckInterval, refreshTimer, intervals, timeouts >>

(***************************************************************************)
(* fetchWeatherData up to its first await: nothing without a location,    *)
(* otherwise getOneCallData(this.currentLocation, true) is in flight.      *)
(***************************************************************************)
fetchWeatherData(fs, loc) ==
    IF loc = NULL THEN fs
    ELSE AddTo(fs, [pc |-> "onecall", ocLoc |-> loc])

\* the snapshot fetchWeatherData stores: each part with the location its
\* request was made for
Snapshot(f) ==
    [current |-> [loc |-> f.cwLoc],
     forecast |-> [loc |-> f.ocLoc, entries |-> f.oneCallData.daily],
     hourly |-> [loc |-> f.ocLoc, entries |-> f.oneCallData.hourly],
     alerts |-> AlertsOrEmpty(f.oneCallData),
     alertsFor |-> f.ocLoc]

\* the location a snapshot is a bundle for, NULL when its parts disagree
BundleOf(wd) ==
    IF wd = NoData THEN NULL
    ELSE IF /\ wd.current.loc = wd.forecast.loc
            /\ wd.hourly.loc = wd.forecast.loc
            /\ wd.alertsFor = wd.forecast.loc
         THEN wd.forecast.loc
         ELSE NULL

(***************************************************************************)
(* History of polls, kept for the properties only.                         *)
(***************************************************************************)
IdsOf(alerts) == { AlertIds[alerts[i]] : i \in 1..Len(alerts) }

RaisedIds(ns) == { AlertIds[ns[i].alert] : i \in 1..Len(ns) }

HistoryAfter(alerts, perm, ns) ==
    [polled |-> history.polled \cup (IF perm = "granted" THEN IdsOf(alerts) ELSE {}),
     notifyPolls |-> [id \in Ids |->
                        IF id \in RaisedIds(ns) /\ history.notifyPolls[id] < 2
                        THEN history.notifyPolls[id] + 1
                        ELSE history.notifyPolls[id]]]

Quiet == raised' = <<>> /\ UNCHANGED << shownAlerts, history >>

(***************************************************************************)
(* Initial state: a first session, after the constructor and initialize(). *)
(***************************************************************************)
Undefined == "undefined"

InitApp ==
    /\ currentLocation = NULL
    /\ weatherData = NoData
    /\ alertCheckInterval = NoHandle
    /\ refreshTimer = NoHandle
    /\ alertsChecked = TRUE
    /\ permission = "default"
    /\ intervals = {}
    /\ timeouts = {}
    /\ weatherLocation = NULL
    /\ shownAlerts = <<>>
    /\ fetches = EmptyBag
    /\ polls = EmptyBag
    /\ raised = <<>>
    /\ last = Step("initialize")
    /\ history = [polled |-> {}, notifyPolls |-> [id \in Ids |-> 0]]

\* no call of getAlertSeverity on its own
SeverityIdle ==
    /\ severityAlert = Tornado1
    /\ severityResult = NULL
    /\ severityCalls = 0

NoUser == [null |-> TRUE]           \* currentUser = null, no stored item

\* new UserService() in a browser that has stored nothing yet
InitUsers ==
    /\ currentUser = NoUser
    /\ savedLocations = <<>>
    /\ storedUsers = <<>>
    /\ storedCurrentUser = NoUser
    /\ clock = 1
    /\ userLast = [op |-> "init"]

\* new MapsService(): no radar manifest has been loaded
RadarIdle ==
    /\ radarData = [host |-> "", radar |-> [past |-> <<>>]]
    /\ radarFrames = <<>>

\* the test server has not been asked anything
ServerIdle ==
    /\ requestUrl = "/"
    /\ filePath = NULL

Init ==
    /\ InitApp
    /\ SeverityIdle
    /\ InitUsers
    /\ RadarIdle
    /\ ServerIdle

(***************************************************************************)
(* Location resolution.                                                    *)
(***************************************************************************)
\* a relocation that abandons the fetches in flight
SetLocationCancelling(E, loc) ==
    /\ BagCardinality(fetches) < E.maxFetches
    /\ currentLocation' = loc
    /\ weatherLocation' = loc
    /\ fetches' = fetchWeatherData(EmptyBag, loc)

\* this.currentLocation = {...}; this.saveLocation(); this.fetchWeatherData()
SetLocation(E, loc) ==
    /\ BagCardinality(fetches) < E.maxFetches
    /\ currentLocation' = loc
    /\ weatherLocation' = loc
    /\ fetches' = fetchWeatherData(fetches, loc)

\* a handler ends by showing an error: nothing of the state changes
ShowError(op) ==
    /\ last' = Step(op)
    /\ Quiet
    /\ TimersUnchanged
    /\ UNCHANGED << currentLocation, weatherData, alertsChecked, permission,
                    weatherLocation, fetches, polls >>
    /\ ServiceUnchanged

\* a handler ends by making loc the location and fetching its weather
Relocate(E, op, loc) ==
    /\ SetLocation(E, loc)
    /\ last' = Step(op)
    /\ Quiet
    /\ TimersUnchanged
    /\ UNCHANGED << weatherData, alertsChecked, permission, polls >>
    /\ ServiceUnchanged

\* a search that takes the last candidate
SearchDoneLast(E) ==
    \E locations \in CandidateLists(E) :
        /\ SetLocation(E, locations[Len(locations)])
        /\ last' = [op |-> "searchDone", replaced |-> NULL, candidates |-> locations]
        /\ Quiet
        /\ TimersUnchanged
        /\ UNCHANGED << weatherData, alertsChecked, permission, polls >>
        /\ ServiceUnchanged

\* WeatherApp.searchLocation, the geocoding call answers with candidates:
\* locations[0] becomes the location
SearchDone(E) ==
    \E locations \in CandidateLists(E) :
        /\ SetLocation(E, locations[1])
        /\ last' = [op |-> "searchDone", replaced |-> NULL, candidates |-> locations]
        /\ Quiet
        /\ TimersUnchanged
        /\ UNCHANGED << weatherData, alertsChecked, permission, polls >>
        /\ ServiceUnchanged

\* WeatherApp.searchLocation, the geocoding call answers with an empty array:
\* WeatherService.searchLocation throws 'No locations found for ...', the
\* catch of WeatherApp.searchLocation shows the message
SearchEmpty == ShowError("searchEmpty")

\* WeatherApp.searchLocation, the geocoding request fails or its status is
\* not ok: WeatherService.searchLocation throws, the error is shown
SearchFailed == ShowError("searchFailed")

\* WeatherApp.getCurrentLocation, the position fix arrives and reverseGeocode
\* answers: the coordinates become the location
GeolocationDone(E) ==
    \E loc \in E.locations : Relocate(E, "geolocationDone", loc)

\* WeatherApp.getCurrentLocation, the platform reports an error or
\* reverseGeocode throws: the error is shown
GeolocationFailed == ShowError("geolocationFailed")

\* the part of the application loadSavedLocation works on
AppState(loc, saved, fs) == [currentLocation |-> loc, weatherLocation |-> saved, fetches |-> fs]

\* WeatherApp.loadSavedLocation as the class ends up defining it (the second
\* definition, with parameters), when reverseGeocode answers: returns at
\* once unless both parameters are truthy, otherwise the coordinates become
\* the location
loadSavedLocation(app, lat, lon) ==
    IF lat = Undefined \/ lon = Undefined
    THEN app
    ELSE [currentLocation |-> lat, weatherLocation |-> lat,
          fetches |-> fetchWeatherData(app.fetches, lat)]

\* the first definition of loadSavedLocation (no parameters), which the second
\* definition of the same name replaces: it restores localStorage's location
loadSavedLocationShadowed(app) ==
    IF app.weatherLocation # NULL
    THEN [app EXCEPT !.currentLocation = app.weatherLocation,
                     !.fetches = fetchWeatherData(@, app.weatherLocation)]
    ELSE app

\* click on an entry of the user's saved locations (user.js):
\* app.loadSavedLocation(lat, lon), reverseGeocode answers
SavedLocationDone(E) ==
    /\ BagCardinality(fetches) < E.maxFetches
    /\ \E loc \in E.locations :
          LET app == loadSavedLocation(AppState(currentLocation, weatherLocation, fetches),
                                       loc, loc)
          IN  /\ currentLocation' = app.currentLocation
              /\ weatherLocation' = app.weatherLocation
              /\ fetches' = app.fetches
    /\ last' = Step("savedLocationDone")
    /\ Quiet
    /\ TimersUnchanged
    /\ UNCHANGED << weatherData, alertsChecked, permission, polls >>
    /\ ServiceUnchanged

\* app.loadSavedLocation(lat, lon), reverseGeocode throws: the error is shown
SavedLocationFailed == ShowError("savedLocationFailed")

(***************************************************************************)
(* fetchWeatherData after its awaits.                                      *)
(***************************************************************************)
\* after getOneCallData: getCurrentWeather(this.currentLocation) is issued for
\* the location the application has now
AwaitCurrent(f, oneCallData, loc) ==
    [pc |-> "current", ocLoc |-> f.ocLoc, oneCallData |-> oneCallData, cwLoc |-> loc]

\* getOneCallData answers
OneCallDone(E) ==
    /\ \E f \in BagToSet(fetches), answer \in OneCallAnswers(E) :
          /\ f.pc = "onecall"
          /\ fetches' = AddTo(RemoveFrom(fetches, f), AwaitCurrent(f, answer, currentLocation))
    /\ last' = Step("oneCallDone")
    /\ Quiet
    /\ TimersUnchanged
    /\ UNCHANGED << currentLocation, weatherData, alertsChecked, permission,
                    weatherLocation, polls >>
    /\ ServiceUnchanged

\* a failed fetch that drops the stored snapshot
FetchFailedClearing ==
    /\ \E f \in BagToSet(fetches) : fetches' = RemoveFrom(fetches, f)
    /\ weatherData' = NoData
    /\ last' = Step("fetchFailed")
    /\ Quiet
    /\ TimersUnchanged
    /\ UNCHANGED << currentLocation, alertsChecked, permission, weatherLocation, polls >>
    /\ ServiceUnchanged

\* a failed fetch that arms the refresh timer again
FetchFailedRearming ==
    /\ \E f \in BagToSet(fetches) : fetches' = RemoveFrom(fetches, f)
    /\ last' = Step("fetchFailed")
    /\ Quiet
    /\ SetTimers(setupAutoRefresh(TimerState))
    /\ UNCHANGED << currentLocation, weatherData, alertsChecked, permission,
                    weatherLocation, polls >>
    /\ ServiceUnchanged

\* either provider call throws: catch shows the error, nothing else happens
FetchFailed ==
    /\ \E f \in BagToSet(fetches) : fetches' = RemoveFrom(fetches, f)
    /\ last' = Step("fetchFailed")
    /\ Quiet
    /\ TimersUnchanged
    /\ UNCHANGED << currentLocation, weatherData, alertsChecked, permission,
                    weatherLocation, polls >>
    /\ ServiceUnchanged

\* the timers after a stored snapshot: startAlertChecking when the permission
\* is granted, then setupAutoRefresh
TimersAfterFetch(t, perm) ==
    setupAutoRefresh(IF perm = "granted" THEN startAlertChecking(t) ELSE t)

\* getCurrentWeather answers: the snapshot is stored, the alerts are
\* processed and the timers are armed
FetchDone ==
    /\ \E f \in BagToSet(fetches) :
          /\ f.pc = "current"
          /\ LET wd == Snapshot(f)
                 ns == ProcessAlertsRaised(wd.alerts, shownAlerts, permission)
             IN  /\ weatherData' = wd
                 /\ raised' = ns
                 /\ shownAlerts' = ProcessAlertsShown(wd.alerts, shownAlerts, permission)
                 /\ history' = HistoryAfter(wd.alerts, permission, ns)
          /\ fetches' = RemoveFrom(fetches, f)
          /\ last' = [op |-> "fetchDone", replaced |-> BundleOf(weatherData)]
    /\ SetTimers(TimersAfterFetch(TimerState, permission))
    /\ UNCHANGED << currentLocation, alertsChecked, permission, weatherLocation, polls >>
    /\ ServiceUnchanged

(***************************************************************************)
(* Timers firing.                                                          *)
(***************************************************************************)
\* the setTimeout callback of setupAutoRefresh
RefreshFire(E) ==
    /\ \E timer \in timeouts : timeouts' = timeouts \ {timer}
    /\ currentLocation # NULL => BagCardinality(fetches) < E.maxFetches
    /\ fetches' = fetchWeatherData(fetches, currentLocation)
    /\ last' = Step("refreshFire")
    /\ Quiet
    /\ UNCHANGED << currentLocation, weatherData, alertCheckInterval, refreshTimer,
                    alertsChecked, permission, intervals, weatherLocation, polls >>
    /\ ServiceUnchanged

\* the setInterval callback of startAlertChecking up to its await
IntervalFire(E) ==
    /\ intervals # {}
    /\ IF currentLocation # NULL /\ alertsChecked
       THEN /\ BagCardinality(polls) < E.maxPolls
            /\ polls' = AddTo(polls, [loc |-> currentLocation])
       ELSE UNCHANGED polls
    /\ last' = Step("intervalFire")
    /\ Quiet
    /\ TimersUnchanged
    /\ UNCHANGED << currentLocation, weatherData, alertsChecked, permission,
                    weatherLocation, fetches >>
    /\ ServiceUnchanged

\* a failed re-poll that stops the alert checking
PollFailedStopping ==
    /\ \E p \in BagToSet(polls) : polls' = RemoveFrom(polls, p)
    /\ last' = Step("pollFailed")
    /\ Quiet
    /\ SetTimers(toggleAlerts(TimerState, FALSE))
    /\ UNCHANGED << currentLocation, weatherData, alertsChecked, permission,
                    weatherLocation, fetches >>
    /\ ServiceUnchanged

\* the re-poll's getOneCallData throws: the error is logged
PollFailed ==
    /\ \E p \in BagToSet(polls) : polls' = RemoveFrom(polls, p)
    /\ last' = Step("pollFailed")
    /\ Quiet
    /\ TimersUnchanged
    /\ UNCHANGED << currentLocation, weatherData, alertsChecked, permission,
                    weatherLocation, fetches >>
    /\ ServiceUnchanged

\* an assignment that adds the polled alerts to the stored ones
StoreAlertsMerging(wd, alerts, loc) ==
    [wd EXCEPT !.alerts = wd.alerts \o alerts, !.alertsFor = loc]

\* this.weatherData.alerts = alerts
StoreAlerts(wd, alerts, loc) == [wd EXCEPT !.alerts = alerts, !.alertsFor = loc]

\* the re-poll's getOneCallData answers: the alerts are stored and processed;
\* without a snapshot the assignment throws a TypeError, which the callback's
\* catch logs
PollDone(E) ==
    /\ \E p \in BagToSet(polls), answer \in OneCallAnswers(E) :
          LET alerts == AlertsOrEmpty(answer)
          IN  /\ polls' = RemoveFrom(polls, p)
              /\ IF weatherData = NoData
                 THEN /\ raised' = <<>>
                      /\ history' = HistoryAfter(alerts, permission, <<>>)
                      /\ last' = Step("pollThrew")
                      /\ UNCHANGED << weatherData, shownAlerts >>
                 ELSE LET ns == ProcessAlertsRaised(alerts, shownAlerts, permission)
                      IN  /\ weatherData' = StoreAlerts(weatherData, alerts, p.loc)
                          /\ raised' = ns
                          /\ shownAlerts' = ProcessAlertsShown(alerts, shownAlerts, permission)
                          /\ history' = HistoryAfter(alerts, permission, ns)
                          /\ last' = [op |-> "pollDone", replaced |-> NULL,
                                      alerts |-> alerts]
    /\ TimersUnchanged
    /\ UNCHANGED << currentLocation, alertsChecked, permission, weatherLocation, fetches >>
    /\ ServiceUnchanged

(***************************************************************************)
(* The alerts toggle and the notification permission.                      *)
(***************************************************************************)
\* 'change' on the alerts toggle: toggleAlerts only with a location
AlertsToggleChange ==
    /\ alertsChecked' = ~alertsChecked
    /\ SetTimers(IF currentLocation # NULL
                 THEN toggleAlerts(TimerState, ~alertsChecked)
                 ELSE TimerState)
    /\ last' = [op |-> "alertsToggleChange", replaced |-> NULL,
                cancelled |-> IF currentLocation # NULL /\ alertsChecked
                              THEN alertCheckInterval ELSE NoHandle]
    /\ Quiet
    /\ UNCHANGED << currentLocation, weatherData, permission, weatherLocation,
                    fetches, polls >>
    /\ ServiceUnchanged

\* what Notification.requestPermission() resolves to: the user decides while
\* the permission is 'default', otherwise the decision stands
PermissionAnswers(perm) ==
    IF perm = "default" THEN {"default", "granted", "denied"} ELSE {perm}

\* requestNotificationPermission, requestPermission resolves: alert checking
\* starts when granted with a location
PermissionResolved ==
    /\ \E answer \in PermissionAnswers(permission) :
          /\ permission' = answer
          /\ SetTimers(IF answer = "granted" /\ currentLocation # NULL
                       THEN startAlertChecking(TimerState)
                       ELSE TimerState)
    /\ last' = Step("permissionResolved")
    /\ Quiet
    /\ UNCHANGED << currentLocation, weatherData, alertsChecked, weatherLocation,
                    fetches, polls >>
    /\ ServiceUnchanged

(***************************************************************************)
(* A new session: the page is loaded again.  Everything in memory, every   *)
(* timer and every pending callback is gone; localStorage and the          *)
(* permission stay.  The DOMContentLoaded handler runs the constructor and *)
(* initialize().                                                           *)
(***************************************************************************)
\* WeatherApp.initialize: applyTheme, setupEventListeners,
\* checkNotificationPermission, then this.loadSavedLocation() without arguments
initialize(app) == loadSavedLocation(app, Undefined, Undefined)

Reload ==
    /\ LET app == initialize(AppState(NULL, weatherLocation, EmptyBag))
       IN  /\ currentLocation' = app.currentLocation
           /\ weatherLocation' = app.weatherLocation
           /\ fetches' = app.fetches
    /\ weatherData' = NoData
    /\ alertCheckInterval' = NoHandle
    /\ refreshTimer' = NoHandle
    /\ intervals' = {}
    /\ timeouts' = {}
    /\ alertsChecked' = TRUE
    /\ polls' = EmptyBag
    /\ last' = Step("initialize")
    /\ Quiet
    /\ UNCHANGED permission
    /\ ServiceUnchanged

(***************************************************************************)
(* Specifications.                                                         *)
(***************************************************************************)
Next ==
    \/ SearchDone(EnvRelocation)
    \/ SearchEmpty
    \/ SearchFailed
    \/ GeolocationDone(EnvRelocation)
    \/ GeolocationFailed
    \/ SavedLocationDone(EnvRelocation)
    \/ SavedLocationFailed
    \/ OneCallDone(EnvRelocation)
    \/ FetchFailed
    \/ FetchDone
    \/ RefreshFire(EnvRelocation)
    \/ IntervalFire(EnvRelocation)
    \/ PollFailed
    \/ PollDone(EnvRelocation)
    \/ AlertsToggleChange
    \/ PermissionResolved
    \/ Reload

Spec == Init /\ [][Next]_vars

NextAlerts ==
    \/ SearchDone(EnvAlerts)
    \/ SearchEmpty
    \/ SearchFailed
    \/ GeolocationDone(EnvAlerts)
    \/ GeolocationFailed
    \/ SavedLocationDone(EnvAlerts)
    \/ SavedLocationFailed
    \/ OneCallDone(EnvAlerts)
    \/ FetchFailed
    \/ FetchDone
    \/ RefreshFire(EnvAlerts)
    \/ IntervalFire(EnvAlerts)
    \/ PollFailed
    \/ PollDone(EnvAlerts)
    \/ AlertsToggleChange
    \/ PermissionResolved
    \/ Reload

SpecAlerts == Init /\ [][NextAlerts]_vars

(***************************************************************************)
(* WeatherService.getAlertSeverity on its own: the caller (the alert       *)
(* display, showAlertNotifications) hands it an alert whose event and      *)
(* description are strings, any number of times.                           *)
(***************************************************************************)
SeverityEvents ==
    { "Tornado Warning", "FLOOD WATCH", "Light Rain", "Drizzle", "Heat Advisory",
      "Thunderstorm", "Extreme Thunderstorm Warning", "" }

SeverityDescriptions ==
    { "", "Take shelter now", "tsunami possible", "Light rain and fog",
      "Cloudy skies", "Strong winds and flooding", "partly CLOUDY" }

SeverityInputs ==
    { [event |-> e, description |-> d] : e \in SeverityEvents, d \in SeverityDescriptions }

InitSeverity ==
    /\ InitApp
    /\ severityAlert \in SeverityInputs
    /\ severityResult = NULL
    /\ severityCalls = 0
    /\ InitUsers
    /\ RadarIdle
    /\ ServerIdle

\* one call weatherService.getAlertSeverity(alert)
CallGetAlertSeverity ==
    /\ severityCalls < MaxCalls
    /\ severityResult' = getAlertSeverity(severityAlert)
    /\ severityCalls' = severityCalls + 1
    /\ UNCHANGED << severityAlert, appVars, userVars, radarVars, serverVars >>

NextSeverity == CallGetAlertSeverity

SpecSeverity == InitSeverity /\ [][NextSeverity]_vars

(***************************************************************************)
(* UserService (js/user.js): the accounts and the saved locations of one   *)
(* page over localStorage.  A call is one step; getStoredItem and          *)
(* setStoredItem are taken to succeed.  A location stands for its name,    *)
(* country, lat and lon.                                                   *)
(***************************************************************************)
\* the accounts: two emails that differ in case only, two passwords
EnvAccounts ==
    [emails |-> {"a@x.io", "A@x.io"}, passwords |-> {"p", "q"},
     places |-> {1, 2}, times |-> 1..MaxTime]

\* the limit: one account, one more place than the limit allows
EnvLimit ==
    [emails |-> {"a@x.io"}, passwords |-> {"p"},
     places |-> 1..(SAVED_LOCATIONS_LIMIT + 1), times |-> 1..MaxTime]

\* Array.prototype.findIndex, 0 where JavaScript answers -1
\* (hits[i] is the answer of the test for element i)
FindIndex(hits) ==
    IF \E i \in DOMAIN hits : hits[i]
    THEN CHOOSE i \in DOMAIN hits : hits[i] /\ \A j \in 1..(i - 1) : ~hits[j]
    ELSE 0

\* the service and the storage it works on
UserState ==
    [currentUser |-> currentUser, savedLocations |-> savedLocations,
     users |-> storedUsers, storedCurrentUser |-> storedCurrentUser, result |-> "none"]

\* UserService.login
login(u, email, password) ==
    LET Matches(user) == user.email = email /\ user.password = password
        i == FindIndex([k \in DOMAIN u.users |-> Matches(u.users[k])])
    IN  IF i = 0 THEN [u EXCEPT !.result = "loginRejected"]
        ELSE LET user == u.users[i]
                 session == [id |-> user.id, name |-> user.name, email |-> user.email]
             IN  [u EXCEPT !.currentUser = session,
                           !.savedLocations = user.savedLocations,
                           !.storedCurrentUser = session,
                           !.result = "loggedIn"]

\* a register that does not look for the email
registerAlways(u, name, email, password, now) ==
    LET newUser == [id |-> NumToString(now), name |-> name, email |-> email,
                    password |-> password, savedLocations |-> <<>>]
    IN  [login([u EXCEPT !.users = Append(@, newUser)], email, password)
            EXCEPT !.result = "registered"]

\* UserService.register; now is what Date.now() returns
register(u, name, email, password, now) ==
    LET SameEmail(user) == user.email = email
        newUser == [id |-> NumToString(now), name |-> name, email |-> email,
                    password |-> password, savedLocations |-> <<>>]
    IN  IF FindIndex([k \in DOMAIN u.users |-> SameEmail(u.users[k])]) # 0
        THEN [u EXCEPT !.result = "registerRejected"]
        ELSE [login([u EXCEPT !.users = Append(@, newUser)], email, password)
                EXCEPT !.result = "registered"]

\* a logout that leaves the stored session
logoutKeepingStored(u) ==
    [u EXCEPT !.currentUser = NoUser, !.savedLocations = <<>>, !.result = "loggedOut"]

\* UserService.logout
logout(u) ==
    [u EXCEPT !.currentUser = NoUser, !.savedLocations = <<>>,
              !.storedCurrentUser = NoUser, !.result = "loggedOut"]

\* UserService.updateUserSavedLocations
updateUserSavedLocations(u) ==
    IF u.currentUser = NoUser THEN u
    ELSE LET SameId(user) == user.id = u.currentUser.id
             userIndex == FindIndex([k \in DOMAIN u.users |-> SameId(u.users[k])])
         IN  IF userIndex # 0
             THEN [u EXCEPT !.users[userIndex].savedLocations = u.savedLocations]
             ELSE u

\* a saveLocation without the limit
saveLocationUnlimited(u, location, now) ==
    LET SamePlace(loc) == loc.place = location
    IN  IF u.currentUser = NoUser THEN [u EXCEPT !.result = "saveIgnored"]
        ELSE IF FindIndex([k \in DOMAIN u.savedLocations |-> SamePlace(u.savedLocations[k])]) # 0
        THEN [u EXCEPT !.result = "saveDuplicate"]
        ELSE [updateUserSavedLocations(
                 [u EXCEPT !.savedLocations =
                               Append(@, [id |-> NumToString(now), place |-> location])])
                EXCEPT !.result = "saved"]

\* UserService.saveLocation
saveLocation(u, location, now) ==
    LET SamePlace(loc) == loc.place = location
    IN  IF u.currentUser = NoUser THEN [u EXCEPT !.result = "saveIgnored"]
        ELSE IF FindIndex([k \in DOMAIN u.savedLocations |-> SamePlace(u.savedLocations[k])]) # 0
        THEN [u EXCEPT !.result = "saveDuplicate"]
        ELSE IF Len(u.savedLocations) >= SAVED_LOCATIONS_LIMIT
        THEN [u EXCEPT !.result = "saveRejected"]
        ELSE [updateUserSavedLocations(
                 [u EXCEPT !.savedLocations =
                               Append(@, [id |-> NumToString(now), place |-> location])])
                EXCEPT !.result = "saved"]

\* UserService.removeLocation
removeLocation(u, locationId) ==
    LET Other(loc) == loc.id # locationId
    IN  IF u.currentUser = NoUser THEN [u EXCEPT !.result = "removeIgnored"]
        ELSE [updateUserSavedLocations(
                 [u EXCEPT !.savedLocations = SelectSeq(@, Other)])
                EXCEPT !.result = "removed"]

\* the constructor and UserService.loadUserData
loadUserData(u) ==
    LET fresh == [u EXCEPT !.currentUser = u.storedCurrentUser, !.savedLocations = <<>>,
                           !.result = "loaded"]
    IN  IF fresh.currentUser = NoUser THEN fresh
        ELSE LET SameId(user) == user.id = fresh.currentUser.id
                 i == FindIndex([k \in DOMAIN fresh.users |-> SameId(fresh.users[k])])
             IN  IF i # 0
                 THEN [fresh EXCEPT !.savedLocations = fresh.users[i].savedLocations]
                 ELSE fresh

\* the state after a call, and the call made
SetUsers(u, call) ==
    /\ currentUser' = u.currentUser
    /\ savedLocations' = u.savedLocations
    /\ storedUsers' = u.users
    /\ storedCurrentUser' = u.storedCurrentUser
    /\ userLast' = [call EXCEPT !.op = u.result]
    /\ UNCHANGED << appVars, severityVars, radarVars, serverVars >>

\* the register form is submitted
RegisterSubmit(E) ==
    \E email \in E.emails, password \in E.passwords, now \in E.times :
        /\ now >= clock
        /\ clock' = now
        /\ SetUsers(register(UserState, "Ann", email, password, now),
                    [op |-> "register", email |-> email])

\* the login form is submitted
LoginSubmit(E) ==
    \E email \in E.emails, password \in E.passwords :
        /\ SetUsers(login(UserState, email, password), [op |-> "login", email |-> email])
        /\ UNCHANGED clock

\* click on the logout button
LogoutClick ==
    /\ SetUsers(logout(UserState), [op |-> "logout"])
    /\ UNCHANGED clock

\* click on 'confirm' of the save-location dialog: saveLocation(app.currentLocation)
ConfirmSaveLocation(E) ==
    \E location \in E.places, now \in E.times :
        /\ now >= clock
        /\ clock' = now
        /\ SetUsers(saveLocation(UserState, location, now),
                    [op |-> "saveLocation", place |-> location])

\* click on the remove button of a listed location
RemoveLocationClick ==
    \E i \in 1..Len(savedLocations) :
        /\ SetUsers(removeLocation(UserState, savedLocations[i].id),
                    [op |-> "removeLocation", id |-> savedLocations[i].id])
        /\ UNCHANGED clock

\* the page is loaded again: new UserService()
ReloadUsers ==
    /\ SetUsers(loadUserData(UserState), [op |-> "load"])
    /\ UNCHANGED clock

NextAccounts ==
    \/ RegisterSubmit(EnvAccounts)
    \/ LoginSubmit(EnvAccounts)
    \/ LogoutClick
    \/ ConfirmSaveLocation(EnvAccounts)
    \/ RemoveLocationClick
    \/ ReloadUsers

SpecAccounts == Init /\ [][NextAccounts]_vars

NextLimit ==
    \/ RegisterSubmit(EnvLimit)
    \/ LoginSubmit(EnvLimit)
    \/ LogoutClick
    \/ ConfirmSaveLocation(EnvLimit)
    \/ RemoveLocationClick
    \/ ReloadUsers

SpecLimit == Init /\ [][NextLimit]_vars

(***************************************************************************)
(* MapsService.processRadarFrames (js/maps.js) with                        *)
(* WeatherService.getRadarImageUrl, on a RainViewer manifest.              *)
(***************************************************************************)
\* a JavaScript string where an object is expected: it has the properties of
\* String.prototype only
JsString(str) == [string |-> str]

\* WeatherService.getRadarImageUrl(radarData, frameIndex = 0, zoom = 5, x = 0, y = 0)
getRadarImageUrl(data, frameIndex, zoom, x, y) ==
    IF "string" \in DOMAIN data THEN NULL            \* '' is falsy, ''.radar and 'p'.radar are undefined
    ELSE IF "radar" \notin DOMAIN data THEN NULL
    ELSE IF "past" \notin DOMAIN data.radar THEN NULL
    ELSE IF (frameIndex + 1) \notin 1..Len(data.radar.past) THEN NULL
    ELSE data.host \o data.radar.past[frameIndex + 1].path \o "/" \o NumToString(zoom)
             \o "/" \o NumToString(x) \o "/" \o NumToString(y) \o "/0/0_0.png"

\* MapsService.processRadarFrames: the frames it leaves in this.radarFrames
\* (opacity in tenths)
processRadarFrames(data) ==
    LET pastFrames == data.radar.past
        nowcastFrames == IF "nowcast" \in DOMAIN data.radar THEN data.radar.nowcast ELSE <<>>
    IN  [i \in 1..Len(pastFrames) |->
            [url |-> getRadarImageUrl(JsString(pastFrames[i].path), pastFrames[i].time, 5, 0, 0),
             timestamp |-> pastFrames[i].time, opacity |-> 6]]
        \o
        [i \in 1..Len(nowcastFrames) |->
            [url |-> getRadarImageUrl(JsString(nowcastFrames[i].path), nowcastFrames[i].time,
                                      5, 0, 0),
             timestamp |-> nowcastFrames[i].time, opacity |-> 6, nowcast |-> TRUE]]

\* the frames of a manifest: a path and a time (its position in the hour)
RadarManifestFrames ==
    { [path |-> "/v2/radar/" \o NumToString(t), time |-> t] : t \in {0, 10, 20} }

\* manifests with at least one past frame, with and without nowcast frames
RadarManifests ==
    LET pasts == UNION { [1..n -> RadarManifestFrames] : n \in 1..MaxFrames }
        nowcasts == UNION { [1..n -> RadarManifestFrames] : n \in 0..1 }
    IN  { [host |-> h, radar |-> [past |-> p]] :
              h \in {"https://tile.example", "https://cdn.example"}, p \in pasts }
        \cup
        { [host |-> h, radar |-> [past |-> p, nowcast |-> n]] :
              h \in {"https://tile.example", "https://cdn.example"}, p \in pasts, n \in nowcasts }

InitRadar ==
    /\ InitApp
    /\ SeverityIdle
    /\ InitUsers
    /\ ServerIdle
    /\ radarData \in RadarManifests
    /\ radarFrames = <<>>

\* MapsService.loadRadarData has the manifest and calls processRadarFrames
ProcessRadarFrames ==
    /\ radarFrames' = processRadarFrames(radarData)
    /\ UNCHANGED << radarData, appVars, severityVars, userVars, serverVars >>

NextRadar == ProcessRadarFrames

SpecRadar == InitRadar /\ [][NextRadar]_vars

(***************************************************************************)
(* The static test server (server script): from req.url to the path handed *)
(* to fs.readFile.  Paths are POSIX paths.                                 *)
(***************************************************************************)
\* __dirname: the directory the script is in
DirName == "/srv/app"

\* String.prototype.split for a separator of one character
RECURSIVE SplitFrom(_, _, _)
SplitFrom(str, sep, current) ==
    IF Len(str) = 0 THEN << current >>
    ELSE IF CharAt(str, 1) = sep
         THEN << current >> \o SplitFrom(SubSeq(str, 2, Len(str)), sep, "")
         ELSE SplitFrom(SubSeq(str, 2, Len(str)), sep, current \o CharAt(str, 1))

Split(str, sep) == SplitFrom(str, sep, "")

\* the segments of an absolute path after path.normalize: '' and '.' are
\* dropped, '..' drops the segment before it and is dropped at the root
RECURSIVE NormalizeSegments(_, _)
NormalizeSegments(segments, done) ==
    IF Len(segments) = 0 THEN done
    ELSE LET seg == Head(segments)
             rest == Tail(segments)
         IN  IF seg = "" \/ seg = "." THEN NormalizeSegments(rest, done)
             ELSE IF seg = ".."
                  THEN NormalizeSegments(rest, IF Len(done) = 0 THEN done
                                               ELSE SubSeq(done, 1, Len(done) - 1))
                  ELSE NormalizeSegments(rest, Append(done, seg))

RECURSIVE JoinSegments(_)
JoinSegments(segments) ==
    IF Len(segments) = 0 THEN ""
    ELSE "/" \o Head(segments) \o JoinSegments(Tail(segments))

\* path.normalize of an absolute path; a trailing slash is kept
normalize(p) ==
    LET body == JoinSegments(NormalizeSegments(Split(p, "/"), <<>>))
        trailing == Len(p) > 1 /\ CharAt(p, Len(p)) = "/"
    IN  IF body = "" THEN "/"
        ELSE IF trailing THEN body \o "/" ELSE body

\* path.join(a, b)
join(a, b) == normalize(a \o "/" \o b)

\* the request handler up to fs.readFile: the path it reads
requestHandler(url) ==
    LET reqUrl == IF url = "/favicon.ico" THEN "/favicon.svg" ELSE url
        urlPath == Split(reqUrl, "?")[1]
        normalized == normalize(join(DirName, urlPath))
    IN  IF urlPath = "/" \/ urlPath = "" THEN join(DirName, "index.html")
        ELSE normalized

\* the request targets a client sends: up to MaxSegments segments, with or
\* without a query
RequestSegments == {"..", ".", "js", "app.js"}

RECURSIVE UrlOf(_)
UrlOf(segments) ==
    IF Len(segments) = 0 THEN ""
    ELSE "/" \o Head(segments) \o UrlOf(Tail(segments))

RequestUrls ==
    LET paths == { UrlOf(segs) : segs \in UNION { [1..n -> RequestSegments] : n \in 1..MaxSegments } }
                     \cup {"/", "/favicon.ico"}
    IN  paths \cup { p \o "?v=../1" : p \in paths }

InitServer ==
    /\ InitApp
    /\ SeverityIdle
    /\ InitUsers
    /\ RadarIdle
    /\ requestUrl \in RequestUrls
    /\ filePath = NULL

\* the server handles the request
HandleRequest ==
    /\ filePath' = requestHandler(requestUrl)
    /\ UNCHANGED << requestUrl, appVars, severityVars, userVars, radarVars >>

NextServer == HandleRequest

SpecServer == InitServer /\ [][NextServer]_vars

(***************************************************************************)
(* Properties.                                                             *)
(***************************************************************************)
RefreshPending ==
    \E timer \in timeouts : timer.handle = refreshTimer /\ timer.delay = REFRESH_INTERVAL

\* C1: a refresh timer reschedules itself after its fetch, failed or not: once
\* the application has armed a refresh timer and every fetch sequence has
\* completed, a refresh timer with the configured interval is pending.  (The
\* handle in refreshTimer is no longer pending only if it fired, which
\* started a fetch; that fetch re-arms the timer when it succeeds.)
C1_RefreshRearmedAfterTimerFetch ==
    (refreshTimer # NoHandle /\ fetches = EmptyBag) => RefreshPending

\* C2: after initialize() in a session that finds a persisted location, that
\* location is the active location and a fetch for it is in flight.
C2_LocationRestored ==
    (last.op = "initialize" /\ weatherLocation # NULL) =>
        /\ currentLocation = weatherLocation
        /\ \E f \in BagToSet(fetches) : f.ocLoc = weatherLocation

\* C3: a fetch sequence that fails, and a sequence that is between its two
\* calls, leaves the stored snapshot as it was; the snapshot's conditions and
\* forecast change only by being replaced as a whole by a sequence whose two
\* calls both answered.
C3_FailedFetchKeepsSnapshot ==
    [][ /\ last'.op \in {"fetchFailed", "oneCallDone"} => weatherData' = weatherData
        /\ (weatherData' # weatherData /\ last'.op \notin {"pollDone", "initialize"}) =>
              \E f \in BagToSet(fetches) :
                  /\ f.pc = "current"
                  /\ last'.op = "fetchDone"
                  /\ weatherData' = Snapshot(f) ]_vars

C3_SnapshotSurvivedFailure ==
    /\ last.op = "fetchFailed"
    /\ weatherData # NoData

\* C4: the stored snapshot is a bundle for one location: its conditions, its
\* forecast and its alerts were fetched for the same location.
C4_SnapshotOneLocation ==
    weatherData # NoData => BundleOf(weatherData) # NULL

\* C5: a superseded fetch is neither cancelled nor discarded: a change of the
\* active location within a session keeps every fetch in flight, and a
\* sequence whose two calls answered stores its snapshot whatever the active
\* location is by then.
C5_SupersededFetchKept ==
    [][ /\ (currentLocation' # currentLocation /\ last'.op # "initialize") =>
              \A f \in BagToSet(fetches) : CopiesIn(f, fetches') >= CopiesIn(f, fetches)
        /\ last'.op = "fetchDone" =>
              \E f \in BagToSet(fetches) : f.pc = "current" /\ weatherData' = Snapshot(f) ]_vars

\* every fetch has finished, the active location is B, and the snapshot is the
\* one A's sequence stored over the snapshot B's sequence had stored
C5_StaleSnapshot ==
    /\ fetches = EmptyBag
    /\ currentLocation = "B"
    /\ last.op = "fetchDone"
    /\ last.replaced = "B"
    /\ BundleOf(weatherData) = "A"

\* C6: of the polls made under a granted permission that return an alert with
\* a given identity, exactly the first notifies it: every identity such a poll
\* has returned has been notified by exactly one poll.
C6_FirstPollNotifies ==
    \A id \in history.polled : history.notifyPolls[id] = 1

\* C7: alerts with equal identity in one fetched array are one occurrence: one
\* step raises at most one notification per identity and the notified-alert
\* log holds each identity at most once.
C7_OneOccurrencePerIdentity ==
    /\ \A i, j \in 1..Len(raised) :
           AlertIds[raised[i].alert] = AlertIds[raised[j].alert] => i = j
    /\ \A i, j \in 1..Len(shownAlerts) :
           shownAlerts[i] = shownAlerts[j] => i = j

\* C8: while the permission is not 'granted', no step raises a notification
\* and no step changes the notified-alert log.
C8_NoPermissionNoNotification ==
    [][ permission # "granted" => (raised' = <<>> /\ shownAlerts' = shownAlerts) ]_vars

\* alerts were processed without the permission: none was notified, and none
\* of them is in the log
C8_AlertsHeldBack ==
    /\ last.op \in {"fetchDone", "pollDone"}
    /\ permission # "granted"
    /\ weatherData # NoData
    /\ Len(weatherData.alerts) > 0
    /\ raised = <<>>
    /\ \A i \in 1..Len(weatherData.alerts) :
           ~Contains(shownAlerts, AlertIds[weatherData.alerts[i]])

\* C9: the notified-alert log only grows: every step leaves the log it found
\* followed by the identities of the alerts notified in that step.
C9_LogAppendOnly ==
    [][ shownAlerts' =
            shownAlerts \o [i \in 1..Len(raised') |-> AlertIds[raised'[i].alert]] ]_vars

C9_LogGrew ==
    /\ last.op \in {"fetchDone", "pollDone"}
    /\ raised # <<>>
    /\ Len(shownAlerts) > Len(raised)

Severities == [a \in AlertUniverse |-> getAlertSeverity(a)]

Titles == [a \in AlertUniverse |->
              toUpperCase(Severities[a]) \o " Weather Alert: " \o a.event]

\* C10: every notification raised is for an alert of the processed array, its
\* title is the upper-cased severity, ' Weather Alert: ' and the event, its
\* body is the description, it requires interaction exactly when the severity
\* is 'severe', and its closing after NOTIFICATION_DURATION is scheduled
\* exactly when the severity is not 'severe'.
C10_NotificationContent ==
    \A i \in 1..Len(raised) :
        LET n == raised[i]
        IN  /\ Contains(weatherData.alerts, n.alert)
            /\ n.title = Titles[n.alert]
            /\ n.body = n.alert.description
            /\ n.requireInteraction <=> (Severities[n.alert] = "severe")
            /\ (n.closeAfter = NOTIFICATION_DURATION) <=> (Severities[n.alert] # "severe")
            /\ (n.closeAfter = 0) <=> (Severities[n.alert] = "severe")

\* one step raised a sticky severe notification and a closing moderate one
C10_StickyAndClosing ==
    \E i, j \in 1..Len(raised) :
        /\ raised[i].title = "SEVERE Weather Alert: Tornado Warning"
        /\ raised[i].requireInteraction
        /\ raised[i].closeAfter = 0
        /\ raised[j].title = "MODERATE Weather Alert: Heat Advisory"
        /\ ~raised[j].requireInteraction
        /\ raised[j].closeAfter = NOTIFICATION_DURATION

(***************************************************************************)
(* Severity classification.                                                *)
(***************************************************************************)
\* the keyword occurs in the text as a substring, whatever the case of either
OccursIn(text, keyword) == includes(toLowerCase(text), toLowerCase(keyword))

\* some keyword of level i of the table occurs in the event or the description
LevelOccurs(alert, i) ==
    \E k \in 1..Len(SEVERITY_LEVELS[i].keywords) :
        \/ OccursIn(alert.event, SEVERITY_LEVELS[i].keywords[k])
        \/ OccursIn(alert.description, SEVERITY_LEVELS[i].keywords[k])

\* C11: getAlertSeverity is total and deterministic: every call with an alert
\* whose event and description are strings returns one of 'severe',
\* 'moderate', 'minor'; it returns 'moderate' when no keyword of the table
\* occurs in either field; and a further call with the same alert returns
\* what the call before it returned.
C11_SeverityTotalDeterministic ==
    /\ [](severityCalls > 0 =>
            /\ severityResult \in {"severe", "moderate", "minor"}
            /\ (\A i \in 1..Len(SEVERITY_LEVELS) : ~LevelOccurs(severityAlert, i)) =>
                   severityResult = "moderate")
    /\ [][(severityCalls > 0 /\ severityAlert' = severityAlert) =>
              severityResult' = severityResult]_vars

\* a second call has returned, for an alert in which no keyword occurs
C11_DefaultedTwice ==
    /\ severityCalls = 2
    /\ \A i \in 1..Len(SEVERITY_LEVELS) : ~LevelOccurs(severityAlert, i)
    /\ severityResult = "moderate"

\* C12: the levels are tried in table order and the first level with a keyword
\* that occurs wins: the result is the first level, in the order severe,
\* moderate, minor, one of whose keywords occurs, case-insensitively and as a
\* substring, in the event or in the description; so an alert in which a
\* SEVERE keyword occurs is 'severe' whichever other keywords occur and
\* whichever field holds it.
C12_FirstLevelInTableOrderWins ==
    severityCalls > 0 =>
        /\ LevelOccurs(severityAlert, 1) => severityResult = "severe"
        /\ \A i \in 1..Len(SEVERITY_LEVELS) :
               (LevelOccurs(severityAlert, i) /\ \A j \in 1..(i - 1) : ~LevelOccurs(severityAlert, j))
                   => severityResult = toLowerCase(SEVERITY_LEVELS[i].level)

\* 'severe' for an alert whose event holds a moderate and a minor keyword and
\* whose description alone holds a SEVERE keyword, in another case than the
\* table's
C12_SevereInDescriptionOnly ==
    /\ severityCalls > 0
    /\ severityAlert.event = "Light Rain"
    /\ severityAlert.description = "tsunami possible"
    /\ LevelOccurs(severityAlert, 2)
    /\ LevelOccurs(severityAlert, 3)
    /\ severityResult = "severe"

(***************************************************************************)
(* Timers, re-polls and the search.                                        *)
(***************************************************************************)
AlertPollPending ==
    \E timer \in intervals : timer.handle = alertCheckInterval /\ timer.delay = CHECK_INTERVAL

\* C13: after every successful full fetch both timers are armed: an alert
\* re-poll timer with the alert check interval and a refresh timer with the
\* refresh interval are pending when the fetch has stored its snapshot.
C13_BothTimersArmedAfterFetch ==
    last.op = "fetchDone" => (RefreshPending /\ AlertPollPending)

\* C14: a fetch sequence that fails neither cancels nor re-arms a timer: the
\* step in which the failure is caught and shown leaves the alert re-poll
\* timer and the refresh timer, the application's handles and the browser's
\* pending timers, exactly as they were.
C14_FailedFetchKeepsTimers ==
    [][ last'.op = "fetchFailed" =>
            /\ alertCheckInterval' = alertCheckInterval
            /\ refreshTimer' = refreshTimer
            /\ intervals' = intervals
            /\ timeouts' = timeouts ]_vars

\* a fetch failed while both timers were armed, and both still are
C14_TimersSurvivedFailure ==
    /\ last.op = "fetchFailed"
    /\ RefreshPending
    /\ AlertPollPending

\* C15: a failed alert re-poll (the provider call throws, or the assignment to
\* a missing snapshot does) is only logged: the snapshot with its alerts and
\* the notified-alert log stay as they were, no notification is raised, and
\* the alert re-poll timer stays as it was.
C15_FailedPollChangesNothing ==
    [][ last'.op \in {"pollFailed", "pollThrew"} =>
            /\ weatherData' = weatherData
            /\ raised' = <<>>
            /\ shownAlerts' = shownAlerts
            /\ alertCheckInterval' = alertCheckInterval
            /\ intervals' = intervals ]_vars

\* a re-poll failed over a snapshot that holds alerts, and the timer is armed
C15_AlertsSurvivedFailedPoll ==
    /\ last.op = "pollFailed"
    /\ weatherData # NoData
    /\ Len(weatherData.alerts) > 0
    /\ permission = "granted"
    /\ AlertPollPending

\* C16: a successful alert re-poll over an existing snapshot makes the
\* snapshot's alerts exactly the array of that poll (empty when the answer
\* has none, never joined with the alerts stored before) and leaves the
\* snapshot's current conditions, daily and hourly forecast unchanged.
C16_PollReplacesAlertsOnly ==
    [][ last'.op = "pollDone" =>
            /\ weatherData # NoData
            /\ weatherData'.alerts = last'.alerts
            /\ weatherData'.current = weatherData.current
            /\ weatherData'.forecast = weatherData.forecast
            /\ weatherData'.hourly = weatherData.hourly ]_vars

\* a re-poll that returned no alerts emptied the alerts of a snapshot, after
\* alerts had been notified
C16_AlertsEmptiedByPoll ==
    /\ last.op = "pollDone"
    /\ last.alerts = <<>>
    /\ weatherData.alerts = <<>>
    /\ shownAlerts # <<>>

\* C17: disabling alerts while a location is active cancels the alert re-poll
\* timer and leaves the refresh timer as it was: no interval timer is pending
\* afterwards, the application holds no alert timer handle, and the refresh
\* handle and the pending refresh timers are unchanged.
C17_DisablingCancelsAlertTimerOnly ==
    [][ (last'.op = "alertsToggleChange" /\ ~alertsChecked' /\ currentLocation # NULL) =>
            /\ alertCheckInterval' = NoHandle
            /\ intervals' = {}
            /\ refreshTimer' = refreshTimer
            /\ timeouts' = timeouts ]_vars

\* alerts were disabled, which cancelled an armed alert timer, and the refresh
\* timer is still pending
C17_AlertTimerCancelledRefreshPending ==
    /\ last.op = "alertsToggleChange"
    /\ ~alertsChecked
    /\ currentLocation # NULL
    /\ last.cancelled # NoHandle
    /\ intervals = {}
    /\ RefreshPending

\* C18: re-enabling alerts with an active location re-arms the alert re-poll
\* timer and issues the first alert poll in the same step, not one alert
\* check interval later.
C18_ReEnablingPollsImmediately ==
    [][ (last'.op = "alertsToggleChange" /\ alertsChecked' /\ currentLocation # NULL) =>
            /\ AlertPollPending'
            /\ BagCardinality(polls') = BagCardinality(polls) + 1 ]_vars

\* C19: a search that returns zero candidates ends in the error shown and
\* leaves the active location, the persisted location, the snapshot, both
\* timers and the calls in flight unchanged; a search that returns candidates
\* makes the first of them the active and the persisted location.
C19_SearchTakesFirstCandidate ==
    [][ /\ last'.op = "searchEmpty" =>
              /\ currentLocation' = currentLocation
              /\ weatherLocation' = weatherLocation
              /\ weatherData' = weatherData
              /\ alertCheckInterval' = alertCheckInterval
              /\ refreshTimer' = refreshTimer
              /\ intervals' = intervals
              /\ timeouts' = timeouts
              /\ fetches' = fetches
        /\ last'.op = "searchDone" =>
              /\ currentLocation' = last'.candidates[1]
              /\ weatherLocation' = last'.candidates[1] ]_vars

\* a search returned two different candidates and the first is the location
C19_FirstOfTwoCandidates ==
    /\ last.op = "searchDone"
    /\ Len(last.candidates) > 1
    /\ last.candidates[2] # last.candidates[1]
    /\ currentLocation = last.candidates[1]

\* C20: the stored snapshot's daily forecast has at most MAX_FORECAST_DAYS
\* entries and its hourly forecast at most MAX_HOURLY_FORECAST entries.
C20_StoredForecastBounded ==
    weatherData # NoData =>
        /\ Len(weatherData.forecast.entries) <= MAX_FORECAST_DAYS
        /\ Len(weatherData.hourly.entries) <= MAX_HOURLY_FORECAST

(***************************************************************************)
(* The alerts toggle against the fetches, and the number of timers.        *)
(***************************************************************************)
\* C23: while the alerts toggle is off no step raises a weather-alert
\* notification: in every state with the toggle off, the step that led to it
\* raised none.
C23_NoNotificationWhileDisabled ==
    ~alertsChecked => raised = <<>>

\* C24: once alerts are disabled the alert re-poll timer stays cancelled until
\* they are enabled again: with the toggle off and no interval pending, no
\* full fetch, refresh-timer firing or change of location arms an interval.
C24_AlertTimerStaysCancelled ==
    [][ ( /\ ~alertsChecked
          /\ intervals = {}
          /\ last'.op \in {"fetchDone", "oneCallDone", "refreshFire", "searchDone",
                           "geolocationDone", "savedLocationDone"} )
            => (intervals' = {} /\ alertCheckInterval' = NoHandle) ]_vars

\* C25: at most one alert re-poll interval and at most one refresh timeout are
\* pending, and a pending timer is the one the application holds the handle of.
C25_AtMostOneTimerOfEachKind ==
    /\ Cardinality(intervals) <= 1
    /\ Cardinality(timeouts) <= 1
    /\ \A timer \in intervals : timer.handle = alertCheckInterval
    /\ \A timer \in timeouts : timer.handle = refreshTimer

\* a fetch stored its snapshot over an earlier one while both timers were
\* armed: both were armed again, and one of each kind is pending
C25_RearmedOverPendingTimers ==
    /\ last.op = "fetchDone"
    /\ last.replaced # NULL
    /\ permission = "granted"
    /\ alertCheckInterval > 2
    /\ Cardinality(intervals) = 1
    /\ Cardinality(timeouts) = 1

\* C26: every keyword of the table classifies at its own level: an alert whose
\* event is exactly a keyword of level L and whose description is empty is
\* classified as L, lower-cased.
C26_KeywordClassifiesAtOwnLevel ==
    (severityCalls > 0 /\ severityAlert.description = "") =>
        \A i \in 1..Len(SEVERITY_LEVELS) :
            (\E k \in 1..Len(SEVERITY_LEVELS[i].keywords) :
                 severityAlert.event = SEVERITY_LEVELS[i].keywords[k])
                => severityResult = toLowerCase(SEVERITY_LEVELS[i].level)

(***************************************************************************)
(* Accounts and saved locations.                                           *)
(***************************************************************************)
ListsWithinLimit ==
    /\ Len(savedLocations) <= SAVED_LOCATIONS_LIMIT
    /\ \A i \in 1..Len(storedUsers) :
           Len(storedUsers[i].savedLocations) <= SAVED_LOCATIONS_LIMIT

\* C21: no saved-location list, in memory or in the stored registry, has more
\* than SAVED_LOCATIONS_LIMIT entries, and a saveLocation called while the
\* list in memory holds the limit is turned down and leaves the list in memory
\* and the stored registry as they were.
C21_SavedLocationsWithinLimit ==
    /\ []ListsWithinLimit
    /\ [][ ("place" \in DOMAIN userLast' /\ Len(savedLocations) >= SAVED_LOCATIONS_LIMIT) =>
              /\ userLast'.op \in {"saveRejected", "saveDuplicate"}
              /\ savedLocations' = savedLocations
              /\ storedUsers' = storedUsers ]_vars

\* a sixth place was turned down: five are in memory and five are stored
C21_SixthPlaceRejected ==
    /\ userLast.op = "saveRejected"
    /\ Len(savedLocations) = SAVED_LOCATIONS_LIMIT
    /\ Len(storedUsers) = 1
    /\ Len(storedUsers[1].savedLocations) = SAVED_LOCATIONS_LIMIT

\* C22: the stored registry never holds two entries with the same email,
\* compared case-sensitively, and a register call with an email of the
\* registry leaves the registry and the session as they were.
C22_EmailsUnique ==
    /\ [](\A i, j \in 1..Len(storedUsers) :
              storedUsers[i].email = storedUsers[j].email => i = j)
    /\ [][ userLast'.op = "registerRejected" =>
              /\ storedUsers' = storedUsers
              /\ currentUser' = currentUser
              /\ savedLocations' = savedLocations
              /\ storedCurrentUser' = storedCurrentUser ]_vars

\* two emails that differ in case only are both registered, and a further
\* register call with one of them was turned down
C22_RegisteredEmailRejected ==
    /\ userLast.op = "registerRejected"
    /\ Len(storedUsers) = 2
    /\ toLowerCase(storedUsers[1].email) = toLowerCase(storedUsers[2].email)

\* C28: saved-location changes are persisted to the logged-in user's own
\* registry entry and to no other: a saveLocation or removeLocation that went
\* through changes the saved-location list of no entry but the one whose email
\* is the current user's.
C28_PersistedToOwnEntryOnly ==
    [][ userLast'.op \in {"saved", "removed"} =>
            \A i \in 1..Len(storedUsers) :
                storedUsers'[i].savedLocations # storedUsers[i].savedLocations
                    => storedUsers[i].email = currentUser.email ]_vars

\* C29: whenever no user is logged in, the list in memory is empty and no
\* active-user record is stored; whenever a user is logged in, the stored
\* active-user record equals the current user in memory and holds no password.
C29_SessionMatchesStorage ==
    /\ currentUser = NoUser => (savedLocations = <<>> /\ storedCurrentUser = NoUser)
    /\ currentUser # NoUser =>
          /\ storedCurrentUser = currentUser
          /\ "password" \notin DOMAIN storedCurrentUser

\* a user with a saved place logged out: nothing is left in memory or in the
\* stored session, and the place is still in the registry
C29_LoggedOutWithStoredPlaces ==
    /\ userLast.op = "loggedOut"
    /\ currentUser = NoUser
    /\ storedCurrentUser = NoUser
    /\ savedLocations = <<>>
    /\ \E i \in 1..Len(storedUsers) : storedUsers[i].savedLocations # <<>>

(***************************************************************************)
(* Radar frames and the test server.                                       *)
(***************************************************************************)
\* the frames of the manifest, past and nowcast, in the order they are processed
ManifestFrames(data) ==
    data.radar.past \o (IF "nowcast" \in DOMAIN data.radar THEN data.radar.nowcast ELSE <<>>)

\* str begins with prefix
StartsWith(str, prefix) ==
    Len(str) >= Len(prefix) /\ SubSeq(str, 1, Len(prefix)) = prefix

\* C27: for a manifest with past frames, processRadarFrames produces one frame
\* per frame of the manifest, and every frame produced has an image URL that
\* is not null and begins with the manifest's host followed by the path of
\* its frame.
C27_RadarFramesHaveUrls ==
    radarFrames # <<>> =>
        /\ Len(radarFrames) = Len(ManifestFrames(radarData))
        /\ \A i \in 1..Len(radarFrames) :
               /\ radarFrames[i].url # NULL
               /\ StartsWith(radarFrames[i].url,
                             radarData.host \o ManifestFrames(radarData)[i].path)

\* C30: whatever the request target, the path the server reads is the root
\* directory or lies under it.
C30_ReadsInsideRoot ==
    filePath # NULL => (filePath = DirName \/ StartsWith(filePath, DirName \o "/"))

====
